---- MODULE Spec2Model ----
(***************************************************************************)
(* Order attribution webhook (src/webhook.py): an order is fetched from    *)
(* BigCommerce, its billing email/phone are matched against NetSuite       *)
(* customers, and an attributed order is written to a Google Sheets        *)
(* ledger.  Each operation of the program is one action; what the outside  *)
(* world answers (HTTP outcomes, CRM rows, environment) is an input of the *)
(* action.  Python strings are sequences of one-character strings (longer  *)
(* literals of the source are kept as one token), None is the record None. *)
(* op names the operation invoked, input its arguments and the outside's   *)
(* answers, output what it returns, calls the external requests it issued  *)
(* in order, matched what the contact matcher answered in the invocation.  *)
(***************************************************************************)
EXTENDS Naturals, Sequences, FiniteSets, TLC

VARIABLES op, input, output, calls, matched

vars == <<op, input, output, calls, matched>>

(***************************** bounds **************************************)
\* longest phone string handed to _clean_phone on its own
MaxPhoneLen == 3
\* longest phone string (order side and CRM side) handed to the matcher
MaxMatchPhoneLen == 2
\* longest phone string (order side and CRM side) of an end-to-end invocation
MaxOrderPhoneLen == 1

(***************************** values **************************************)
None == [t |-> "none"]
Str(s) == [t |-> "str", v |-> s]
\* a JSON number where a string was expected (truthy, not a str)
Num == [t |-> "num"]

IsStr(x) == x.t = "str"
\* Python truthiness of None / str / non-zero number
Truthy(x) == IF x.t = "none" THEN FALSE ELSE IF x.t = "str" THEN Len(x.v) > 0 ELSE TRUE

Digits == {"5", "7"}
PhoneChars == {"5", "-", "\\", "D"}

SeqsUpTo(S, n) == UNION {[1..k -> S] : k \in 0..n}

\* the digit characters of a string, in order (what '[^0-9]' -> '' leaves)
DigitsOf(s) == SelectSeq(s, LAMBDA c : c \in Digits)

UpperChar(c) == IF c = "a" THEN "A" ELSE IF c = "b" THEN "B" ELSE IF c = "x" THEN "X" ELSE c
\* SQL UPPER()
UPPER(s) == [i \in 1..Len(s) |-> UpperChar(s[i])]

\* re.sub(r'\\D', '', s): the raw pattern \\D is an escaped backslash followed
\* by the letter D; every non-overlapping occurrence, left to right, is removed
RECURSIVE re_sub_backslash_D(_)
re_sub_backslash_D(s) ==
    IF Len(s) = 0 THEN <<>>
    ELSE IF Len(s) >= 2 /\ s[1] = "\\" /\ s[2] = "D"
         THEN re_sub_backslash_D(SubSeq(s, 3, Len(s)))
         ELSE <<s[1]>> \o re_sub_backslash_D(Tail(s))

\* NetSuiteService._clean_phone; a truthy non-string makes re.sub raise TypeError
CleanRaises(phone) == Truthy(phone) /\ ~IsStr(phone)

_clean_phone(phone) ==
    IF ~Truthy(phone) THEN None ELSE Str(re_sub_backslash_D(phone.v))

(****************************** CRM ****************************************)
\* transport outcome of one HTTP request
Outcomes == {"ok", "http_error", "exception"}

\* WHERE clause of _search_customer_perfect_match, rows kept in ORDER BY order
\* (the table is a sequence, most recent contact first)
PerfectMatchRows(crm, email, clean_phone) ==
    SelectSeq(crm, LAMBDA r :
        /\ UPPER(r.email) = UPPER(email)
        /\ DigitsOf(IF r.phone = None THEN <<>> ELSE r.phone.v) = clean_phone
        /\ r.salesrep # None)

\* WHERE clause of _search_customer_email_only
EmailOnlyRows(crm, email) ==
    SelectSeq(crm, LAMBDA r : UPPER(r.email) = UPPER(email) /\ r.salesrep # None)

\* str(x).isdigit()
IsDigitStr(s) == Len(s) > 0 /\ \A i \in 1..Len(s) : s[i] \in Digits

EmployeeIdLabel(employee_id) == Str(<<"Employee ID: ">> \o employee_id)

\* NetSuiteService.get_employee_name: emp is the employee request's answer,
\* [outcome, items], an item being [name (formatted and stripped), entityid
\* (Str, None for a JSON null, or "missing")]
get_employee_name(employee_id, emp) ==
    IF emp.outcome # "ok" THEN EmployeeIdLabel(employee_id)
    ELSE IF Len(emp.items) = 0 THEN EmployeeIdLabel(employee_id)
    ELSE LET employee == emp.items[1] IN
         IF Len(employee.name) > 0 THEN Str(employee.name)
         ELSE IF employee.entityid = [t |-> "missing"] THEN EmployeeIdLabel(employee_id)
         ELSE employee.entityid

\* NetSuiteService._execute_search_query: any failure of the request is
\* swallowed and answers None; [ret, calls]
_execute_search_query(qname, match_type, outcome, items, emp) ==
    IF outcome # "ok" THEN [ret |-> None, calls |-> <<[call |-> qname, outcome |-> outcome]>>]
    ELSE IF Len(items) = 0 THEN [ret |-> None, calls |-> <<[call |-> qname, outcome |-> outcome]>>]
    ELSE LET record == items[1]
             sales_rep_id == record.salesrep
             lookup == Truthy(sales_rep_id) /\ IsDigitStr(sales_rep_id.v)
             sales_rep == IF lookup THEN get_employee_name(sales_rep_id.v, emp)
                          ELSE IF Truthy(sales_rep_id) THEN sales_rep_id
                          ELSE Str(<<"Not Assigned">>)
         IN [ret |-> [t |-> "dict",
                      email |-> record.email,
                      phone |-> record.phone,
                      sales_rep |-> sales_rep,
                      found |-> TRUE,
                      manual_verification |-> FALSE,
                      review_reason |-> <<match_type>>],
             calls |-> <<[call |-> qname, outcome |-> outcome]>>
                       \o (IF lookup THEN <<[call |-> "employee", outcome |-> emp.outcome]>>
                           ELSE <<>>)]

_search_customer_perfect_match(email, clean_phone, crm, net) ==
    _execute_search_query("crm_perfect", "Perfect match", net.perfect,
                          PerfectMatchRows(crm, email, clean_phone), net.emp)

_search_customer_email_only(email, crm, net) ==
    _execute_search_query("crm_email", "Email match", net.emailq,
                          EmailOnlyRows(crm, email), net.emp)

\* the dict a failed search answers; .get() of a key it lacks is None
NotFound(reason) ==
    [t |-> "dict", email |-> <<>>, phone |-> None, sales_rep |-> None,
     found |-> FALSE, manual_verification |-> TRUE, review_reason |-> reason]

\* AnnotateEmailMatch with the comparison of line 85 inverted
AnnotateEmailMatch_InvertedCompare(email_match, clean_phone) ==
    IF Truthy(clean_phone) /\ Truthy(email_match.phone)
    THEN LET netsuite_phone == _clean_phone(email_match.phone) IN
         IF netsuite_phone = clean_phone
         THEN [email_match EXCEPT !.manual_verification = TRUE,
                                  !.review_reason = <<"Phone number mismatch">>]
         ELSE [email_match EXCEPT !.manual_verification = FALSE,
                                  !.review_reason = <<"Perfect match">>]
    ELSE [email_match EXCEPT
            !.manual_verification = Truthy(clean_phone),
            !.review_reason = IF Truthy(clean_phone)
                              THEN <<"Missing phone in NetSuite">>
                              ELSE <<"No phone provided">>]

\* AnnotateEmailMatch with the two reasons of line 93 exchanged
AnnotateEmailMatch_SwappedReasons(email_match, clean_phone) ==
    IF Truthy(clean_phone) /\ Truthy(email_match.phone)
    THEN LET netsuite_phone == _clean_phone(email_match.phone) IN
         IF netsuite_phone # clean_phone
         THEN [email_match EXCEPT !.manual_verification = TRUE,
                                  !.review_reason = <<"Phone number mismatch">>]
         ELSE [email_match EXCEPT !.manual_verification = FALSE,
                                  !.review_reason = <<"Perfect match">>]
    ELSE [email_match EXCEPT
            !.manual_verification = Truthy(clean_phone),
            !.review_reason = IF Truthy(clean_phone)
                              THEN <<"No phone provided">>
                              ELSE <<"Missing phone in NetSuite">>]

\* lines 82-95: the annotation of an email-only match
AnnotateEmailMatch(email_match, clean_phone) ==
    IF Truthy(clean_phone) /\ Truthy(email_match.phone)
    THEN LET netsuite_phone == _clean_phone(email_match.phone) IN
         IF netsuite_phone # clean_phone
         THEN [email_match EXCEPT !.manual_verification = TRUE,
                                  !.review_reason = <<"Phone number mismatch">>]
         ELSE [email_match EXCEPT !.manual_verification = FALSE,
                                  !.review_reason = <<"Perfect match">>]
    ELSE [email_match EXCEPT
            !.manual_verification = Truthy(clean_phone),
            !.review_reason = IF Truthy(clean_phone)
                              THEN <<"Missing phone in NetSuite">>
                              ELSE <<"No phone provided">>]

\* NetSuiteService.search_contact_by_email_and_phone; [ret, calls]
search_contact_by_email_and_phone(email, phone, crm, net) ==
    IF CleanRaises(phone)
    THEN [ret |-> NotFound(<<"Search error: ", "expected string or bytes-like object">>),
          calls |-> <<>>]
    ELSE LET clean_phone == IF Truthy(phone) THEN _clean_phone(phone) ELSE None
             pm == IF Truthy(clean_phone)
                   THEN _search_customer_perfect_match(email, clean_phone.v, crm, net)
                   ELSE [ret |-> None, calls |-> <<>>]
         IN IF pm.ret # None THEN pm
            ELSE LET em == _search_customer_email_only(email, crm, net) IN
                 IF em.ret # None
                 THEN [ret |-> AnnotateEmailMatch(em.ret, clean_phone),
                       calls |-> pm.calls \o em.calls]
                 ELSE [ret |-> NotFound(<<"No NetSuite record found">>),
                       calls |-> pm.calls \o em.calls]

(************************ ledger and orchestrator **************************)
\* send_to_sheets that posts a second time when the first post fails
send_to_sheets_Retry(data, env, sheets) ==
    IF ~env.webapp_url
    THEN [ok |-> TRUE, calls |-> <<[call |-> "send_to_sheets", outcome |-> "simulated", data |-> data]>>]
    ELSE [ok |-> sheets = "ok",
          calls |-> IF sheets = "ok"
                    THEN <<[call |-> "send_to_sheets", outcome |-> sheets, data |-> data]>>
                    ELSE <<[call |-> "send_to_sheets", outcome |-> sheets, data |-> data],
                           [call |-> "send_to_sheets", outcome |-> sheets, data |-> data]>>]

\* send_to_sheets: [ok, calls]; without GOOGLE_WEBAPP_URL the write is only
\* logged and answers True; a request that fails or is not 200 answers False
send_to_sheets(data, env, sheets) ==
    IF ~env.webapp_url
    THEN [ok |-> TRUE, calls |-> <<[call |-> "send_to_sheets", outcome |-> "simulated", data |-> data]>>]
    ELSE [ok |-> sheets = "ok",
          calls |-> <<[call |-> "send_to_sheets", outcome |-> sheets, data |-> data]>>]

store_configs == {<<"Wilson US">>, <<"Signal US">>, <<"Wilson CA">>, <<"Signal CA">>}

\* get_bigcommerce_service_by_store_name raises ValueError for a store that is
\* not in store_configs or whose hash / token is not in the environment
StoreRaises(store_name, env) ==
    \/ store_name.v \notin store_configs
    \/ store_name.v \notin env.stores

\* get_order_details that logs a failure and returns instead of raising
get_order_details_Swallowed(fetch, order) ==
    [raised |-> FALSE, order |-> order,
     calls |-> <<[call |-> "get_order_details", outcome |-> fetch]>>]

\* BigCommerceService.get_order_details: [raised, order, calls]; every failure
\* of the request is logged and raised again
get_order_details(fetch, order) ==
    [raised |-> fetch # "ok", order |-> order,
     calls |-> <<[call |-> "get_order_details", outcome |-> fetch]>>]

\* what process_klaviyo_order returns: a dict, or a (dict, code) tuple
ErrorTuple(msg, code) ==
    [is_tuple |-> TRUE, code |-> code, status |-> "error", error |-> msg,
     reason |-> <<>>, sales_rep |-> None, manual_verification |-> FALSE]

Unassigned == {Str(<<"Not Assigned">>), Str(<<"NO OWNER">>), None, Str(<<>>)}

\* line 351 without the test of the sentinels
Attributed_FoundOnly(contact_result) ==
    contact_result.found

\* line 351
Attributed(contact_result) ==
    contact_result.found /\ contact_result.sales_rep \notin Unassigned

\* lines 333-348: the invocation gets as far as the matcher
MatcherReached(klaviyo_data, w) ==
    /\ klaviyo_data.t = "json"
    /\ Truthy(klaviyo_data.order_id)
    /\ Truthy(klaviyo_data.store)
    /\ ~StoreRaises(klaviyo_data.store, w.env)
    /\ ~get_order_details(w.fetch, w.order).raised
    /\ w.env.netsuite_account

NotMatched == [ret |-> None, calls |-> <<>>]

\* line 349, when it is reached
MatcherResult(klaviyo_data, w) ==
    IF MatcherReached(klaviyo_data, w)
    THEN search_contact_by_email_and_phone(w.order.email, w.order.phone, w.crm, w.net)
    ELSE NotMatched

\* process_klaviyo_order; w is what the outside answers: [env, fetch, order,
\* crm, net, sheets], m what line 349 answers; [ret, calls, contact], contact
\* being the matcher's result (None when the matcher was not reached)
process_klaviyo_order(klaviyo_data, w, m) ==
    IF klaviyo_data.t = "null"
    THEN [ret |-> ErrorTuple(<<"'NoneType' object has no attribute 'get'">>, 500),
          calls |-> <<>>, contact |-> None]
    ELSE IF ~Truthy(klaviyo_data.order_id)
    THEN [ret |-> ErrorTuple(<<"No order ID found in Klaviyo data">>, 400),
          calls |-> <<>>, contact |-> None]
    ELSE IF ~Truthy(klaviyo_data.store)
    THEN [ret |-> ErrorTuple(<<"No store name found in Klaviyo data">>, 400),
          calls |-> <<>>, contact |-> None]
    ELSE IF StoreRaises(klaviyo_data.store, w.env)
    THEN [ret |-> ErrorTuple(IF klaviyo_data.store.v \notin store_configs
                             THEN <<"Unknown store name: ">> \o klaviyo_data.store.v
                             ELSE <<"Missing configuration for store: ">> \o klaviyo_data.store.v,
                             500),
          calls |-> <<>>, contact |-> None]
    ELSE LET f == get_order_details(w.fetch, w.order) IN
    IF f.raised
    THEN [ret |-> ErrorTuple(<<"order fetch: ", w.fetch>>, 500),
          calls |-> f.calls, contact |-> None]
    ELSE IF ~w.env.netsuite_account
    THEN \* NetSuiteService(): None.lower() raises AttributeError
         [ret |-> ErrorTuple(<<"'NoneType' object has no attribute 'lower'">>, 500),
          calls |-> f.calls, contact |-> None]
    ELSE LET contact_result == m.ret IN
    IF Attributed(contact_result)
    THEN LET sheet_data == [email |-> f.order.email,
                            phone |-> f.order.phone,
                            sales_rep |-> contact_result.sales_rep,
                            manual_verification |-> contact_result.manual_verification,
                            review_reason |-> contact_result.review_reason,
                            netsuite_phone |-> contact_result.phone]
             s == send_to_sheets(sheet_data, w.env, w.sheets)
         IN IF s.ok
            THEN [ret |-> [is_tuple |-> FALSE, code |-> 0, status |-> "success",
                           error |-> <<>>, reason |-> <<>>,
                           sales_rep |-> contact_result.sales_rep,
                           manual_verification |-> contact_result.manual_verification],
                  calls |-> f.calls \o m.calls \o s.calls, contact |-> contact_result]
            ELSE [ret |-> ErrorTuple(<<"Failed to send to Google Sheets">>, 500),
                  calls |-> f.calls \o m.calls \o s.calls, contact |-> contact_result]
    ELSE [ret |-> [is_tuple |-> FALSE, code |-> 0, status |-> "ignored",
                   error |-> <<>>, reason |-> contact_result.review_reason,
                   sales_rep |-> None, manual_verification |-> FALSE],
          calls |-> f.calls \o m.calls, contact |-> contact_result]

(****************************** handler ************************************)
CorsHeaders ==
    [Access_Control_Allow_Origin |-> "*",
     Access_Control_Allow_Methods |-> "POST, OPTIONS",
     Access_Control_Allow_Headers |-> "Content-Type"]

\* handler(request, response): [status_code, headers, raised, body, result,
\* calls].  `import json` in the body of handler (line 421) makes json a local
\* name of the whole function: json.dumps raises UnboundLocalError unless that
\* import ran, which it does only on the branch without request.get_json.
handler(request, w, m) ==
    LET resp(code, raised, body, result, cs) ==
            [status_code |-> code, headers |-> CorsHeaders, raised |-> raised,
             body |-> body, result |-> result, calls |-> cs]
    IN
    IF request.method = "OPTIONS" THEN resp(200, "none", "empty", None, <<>>)
    ELSE IF request.method # "POST" THEN resp(405, "UnboundLocalError", "none", None, <<>>)
    ELSE IF request.has_get_json
    THEN IF request.body.t = "invalid"
         THEN \* get_json raises; the except clause's json.dumps raises in turn
              resp(500, "UnboundLocalError", "none", None, <<>>)
         ELSE LET p == process_klaviyo_order(request.body, w, m) IN
              \* line 426 raises, line 430 raises again
              resp(500, "UnboundLocalError", "none", p.ret, p.calls)
    ELSE IF request.body.t = "invalid"
         THEN resp(500, "none", "handler_error", None, <<>>)
         ELSE LET p == process_klaviyo_order(request.body, w, m) IN
              resp(200, "none", "result", p.ret, p.calls)

(************************** input spaces ***********************************)
Phones == {Str(s) : s \in SeqsUpTo(PhoneChars, MaxPhoneLen)}
MatchPhoneChars == {"5", "-"}
MatchPhones == {Str(s) : s \in SeqsUpTo(MatchPhoneChars, MaxMatchPhoneLen)}
OrderPhones == {Str(s) : s \in SeqsUpTo(MatchPhoneChars, MaxOrderPhoneLen)}
Emails == {<<"a", "@", "x">>, <<"A", "@", "X">>, <<"b", "@", "x">>}
CrmEmails == {<<"a", "@", "x">>, <<"A", "@", "X">>}
SalesReps == {None, Str(<<"7">>), Str(<<"NO OWNER">>)}
Contacts(phones) == [email : CrmEmails, phone : phones \cup {None}, salesrep : SalesReps]
\* a more recently touched customer with the same email
RecentContacts ==
    {[email |-> <<"a", "@", "x">>, phone |-> Str(<<"5">>), salesrep |-> Str(<<"7">>)]}
\* the table, most recent row first: empty, one customer, or an older
\* customer of the same email behind a more recent one
CrmTables(phones) ==
    {<<>>} \cup {<<c>> : c \in Contacts(phones)}
           \cup UNION {{<<d, c>> : c \in {x \in Contacts(phones) :
                                              x.email = d.email /\ x.salesrep = d.salesrep}} :
                        d \in RecentContacts}
EmployeeItems == {[name |-> <<"J. Smith">>, entityid |-> Str(<<"E7">>)],
                  [name |-> <<>>, entityid |-> Str(<<"NO OWNER">>)],
                  [name |-> <<>>, entityid |-> None],
                  [name |-> <<>>, entityid |-> [t |-> "missing"]]}
EmployeeAnswers == {[outcome |-> o, items |-> <<>>] : o \in Outcomes}
                   \cup {[outcome |-> "ok", items |-> <<e>>] : e \in EmployeeItems}
Nets == [perfect : Outcomes, emailq : Outcomes, emp : EmployeeAnswers]
FetchOutcomes == {"ok", "http_error", "timeout", "exception"}
EnvFull == [stores |-> {<<"Wilson US">>}, netsuite_account |-> TRUE, webapp_url |-> TRUE]
Envs == {EnvFull, [EnvFull EXCEPT !.stores = {}],
         [EnvFull EXCEPT !.netsuite_account = FALSE],
         [EnvFull EXCEPT !.webapp_url = FALSE]}
Payloads == {[t |-> "null"]}
            \cup [t : {"json"}, order_id : {None, Str(<<"1001">>)},
                  store : {None, Str(<<"Wilson US">>), Str(<<"Signal US">>), Str(<<"Acme">>)}]
\* BigCommerce answers the billing phone as a string (or null)
Orders == [email : Emails, phone : OrderPhones \cup {None}]
QuietNet == [perfect |-> "ok", emailq |-> "ok", emp |-> [outcome |-> "ok", items |-> <<>>]]
QuietOrder == [email |-> <<"a", "@", "x">>, phone |-> None]
ReachesFetch(k, env) ==
    /\ k.t = "json"
    /\ Truthy(k.order_id)
    /\ Truthy(k.store)
    /\ ~StoreRaises(k.store, env)
\* the outside of one end-to-end invocation; what the code cannot reach on a
\* branch is fixed there, so that equal invocations are one state
\* the matcher is reached
ReachesMatcher(k, env, fetch) ==
    ReachesFetch(k, env) /\ fetch = "ok" /\ env.netsuite_account
\* the outside of one end-to-end invocation, one dimension at a time; what
\* the code cannot reach on a branch is fixed there, so that equal
\* invocations are one state
FetchesFor(k, env) == IF ReachesFetch(k, env) THEN FetchOutcomes ELSE {"ok"}
OrdersFor(k, env, fetch) ==
    IF ReachesFetch(k, env) /\ fetch = "ok" THEN Orders ELSE {QuietOrder}
TablesFor(k, env, fetch) ==
    IF ReachesMatcher(k, env, fetch)
    THEN {<<>>} \cup {<<c>> : c \in Contacts(OrderPhones)}
    ELSE {<<>>}
NetsFor(k, env, fetch, nets) == IF ReachesMatcher(k, env, fetch) THEN nets ELSE {QuietNet}
SheetsFor(k, env, fetch) ==
    IF ReachesMatcher(k, env, fetch) /\ env.webapp_url THEN Outcomes ELSE {"ok"}
\* every CRM request answering 200
OkNets == [perfect : {"ok"}, emailq : {"ok"}, emp : EmployeeAnswers]
\* the body that reaches process_klaviyo_order, "invalid" when none does
ProcessedBody(request) ==
    IF request.method = "POST" THEN request.body ELSE [t |-> "invalid"]
Requests == [method : {"OPTIONS", "GET", "PUT", "POST"}, has_get_json : BOOLEAN,
             body : {[t |-> "invalid"]} \cup Payloads]

(****************************** actions ************************************)
Init ==
    /\ op = "none"
    /\ input = None
    /\ output = None
    /\ calls = <<>>
    /\ matched = NotMatched

CleanPhone ==
    /\ op = "none"
    /\ \E phone \in Phones \cup {None} :
        /\ input' = [phone |-> phone]
        /\ output' = _clean_phone(phone)
    /\ op' = "_clean_phone"
    /\ calls' = <<>>
    /\ matched' = NotMatched

SearchContact ==
    /\ op = "none"
    /\ \E email \in Emails, phone \in MatchPhones \cup {None, Num, Str(<<"\\", "D">>)},
          crm \in CrmTables(MatchPhones), net \in Nets :
        /\ matched' = search_contact_by_email_and_phone(email, phone, crm, net)
        /\ input' = [email |-> email, phone |-> phone, crm |-> crm, net |-> net]
        /\ output' = matched'.ret
        /\ calls' = matched'.calls
    /\ op' = "search_contact_by_email_and_phone"

ProcessKlaviyoOrder ==
    /\ op = "none"
    /\ \E klaviyo_data \in Payloads, env \in Envs :
       \E fetch \in FetchesFor(klaviyo_data, env) :
       \E order \in OrdersFor(klaviyo_data, env, fetch),
          crm \in TablesFor(klaviyo_data, env, fetch),
          net \in NetsFor(klaviyo_data, env, fetch, Nets),
          sheets \in SheetsFor(klaviyo_data, env, fetch) :
        LET w == [env |-> env, fetch |-> fetch, order |-> order, crm |-> crm,
                  net |-> net, sheets |-> sheets]
        IN /\ matched' = MatcherResult(klaviyo_data, w)
           /\ LET r == process_klaviyo_order(klaviyo_data, w, matched')
              IN /\ output' = [ret |-> r.ret, contact |-> r.contact]
                 /\ calls' = r.calls
           /\ input' = [klaviyo_data |-> klaviyo_data, w |-> w]
    /\ op' = "process_klaviyo_order"

Handler ==
    /\ op = "none"
    /\ \E request \in Requests :
       LET k == ProcessedBody(request) IN
       \E env \in (IF k.t = "invalid" THEN {EnvFull} ELSE Envs) :
       \E fetch \in FetchesFor(k, env) :
       \E order \in OrdersFor(k, env, fetch),
          crm \in TablesFor(k, env, fetch),
          net \in NetsFor(k, env, fetch, OkNets),
          sheets \in SheetsFor(k, env, fetch) :
        LET w == [env |-> env, fetch |-> fetch, order |-> order, crm |-> crm,
                  net |-> net, sheets |-> sheets]
        IN /\ matched' = MatcherResult(k, w)
           /\ output' = handler(request, w, matched')
           /\ calls' = output'.calls
           /\ input' = [request |-> request, w |-> w]
    /\ op' = "handler"

Next == CleanPhone \/ SearchContact \/ ProcessKlaviyoOrder \/ Handler

Spec == Init /\ [][Next]_vars

(******************************* claims ************************************)
IsSearch == op = "search_contact_by_email_and_phone"
IsProcess == op = "process_klaviyo_order"
IsHandler == op = "handler"

\* the specification's phone normalisation: the digits, in order
Normalized(p) == IF IsStr(p) THEN DigitsOf(p.v) ELSE <<>>

SameEmail(e1, e2) == UPPER(e1) = UPPER(e2)

\* a CRM request of the matcher that was issued and failed
CrmRequestFailed ==
    \E i \in 1..Len(calls) :
        calls[i].call \in {"crm_perfect", "crm_email"} /\ calls[i].outcome # "ok"

\* C1: if the CRM holds a contact with the order's email (case-insensitive),
\* the order phone's digit sequence and a sales rep, and all CRM queries
\* succeed, the matcher answers found, manual_verification = false and
\* review_reason "Perfect match", whatever the formatting of the order phone.
C1_PerfectMatchAnyFormat ==
    (/\ IsSearch
     /\ IsStr(input.phone)
     /\ Len(Normalized(input.phone)) > 0
     /\ input.net.perfect = "ok" /\ input.net.emailq = "ok" /\ input.net.emp.outcome = "ok"
     /\ \E i \in 1..Len(input.crm) :
            /\ SameEmail(input.crm[i].email, input.email)
            /\ input.crm[i].phone # None
            /\ Normalized(input.crm[i].phone) = Normalized(input.phone)
            /\ input.crm[i].salesrep # None)
    => (/\ output.found
        /\ ~output.manual_verification
        /\ output.review_reason = <<"Perfect match">>)

\* C2: _clean_phone answers exactly the digits of its input, in their order,
\* and None for an absent (or empty) input.
C2_CleanPhoneKeepsExactlyDigits ==
    op = "_clean_phone" =>
        IF Truthy(input.phone) THEN output = Str(DigitsOf(input.phone.v))
        ELSE output = None

\* an exact email + phone match: the answered contact has the order's email
\* and a phone of the same digit sequence as the (non-empty) order phone
ExactMatch ==
    /\ output.found
    /\ SameEmail(output.email, input.email)
    /\ IsStr(input.phone) /\ Truthy(input.phone)
    /\ output.phone # None
    /\ Normalized(output.phone) = Normalized(input.phone)

\* C3 as stated: manual_verification is false only for an exact email+phone
\* match or an email-only match with the phone missing on both sides (the
\* order has no phone, or one without any digit, and the CRM record has none).
C3_Original_FalseOnlyIfExactOrBothMissing ==
    (IsSearch /\ ~output.manual_verification) =>
        \/ ExactMatch
        \/ (/\ output.found
            /\ Len(Normalized(input.phone)) = 0
            /\ input.phone # Num
            /\ ~Truthy(output.phone))

\* C3 (amended): manual_verification is false only for an exact email+phone
\* match or an email-only match for an order without a phone (absent, or
\* without any digit), whatever phone the CRM record holds; a one-sided
\* missing CRM phone, a mismatch, no record and a search error all give true.
C3_FalseOnlyIfExactOrNoOrderPhone ==
    (IsSearch /\ ~output.manual_verification) =>
        \/ ExactMatch
        \/ (/\ output.found
            /\ Len(Normalized(input.phone)) = 0
            /\ input.phone # Num
            /\ output.review_reason = <<"No phone provided">>)

C3_Witness ==
    /\ IsSearch
    /\ ~output.manual_verification
    /\ input.phone = None
    /\ Truthy(output.phone)

\* the order phone as the matcher holds it after line 74
OrderCleanPhone == IF Truthy(input.phone) THEN _clean_phone(input.phone) ELSE None

\* the email-only query was issued and answered a contact
EmailOnlyAnswered ==
    /\ IsSearch
    /\ ~CleanRaises(input.phone)
    /\ Len(calls) > 0
    /\ \E i \in 1..Len(calls) : calls[i] = [call |-> "crm_email", outcome |-> "ok"]
    /\ Len(EmailOnlyRows(input.crm, input.email)) > 0

EmailOnlyContact == EmailOnlyRows(input.crm, input.email)[1]

C5_FailedQueryIsSearchError ==
    (IsSearch /\ CrmRequestFailed) =>
        /\ ~output.found
        /\ output.manual_verification
        /\ output.review_reason[1] = "Search error: "

LedgerWritten == \E i \in 1..Len(calls) : calls[i].call = "send_to_sheets"

C6_Sentinels == {Str(<<"Not Assigned">>), Str(<<"NO OWNER">>), Str(<<>>), None}

\* C6: process_klaviyo_order writes to the ledger exactly when the matcher's
\* result is found with a sales rep that is no unassigned sentinel; "ignored"
\* comes with no ledger write and the matcher's review_reason ("No NetSuite
\* record found" when no CRM record has the email); "success" carries the
\* matched sales rep and the matcher's manual_verification.
C6_LedgerWriteIffAttributed ==
    IsProcess =>
        /\ LedgerWritten <=> (/\ output.contact # None
                              /\ output.contact.found
                              /\ output.contact.sales_rep \notin C6_Sentinels)
        /\ output.ret.status = "ignored" =>
              /\ ~LedgerWritten
              /\ output.contact # None
              /\ output.ret.reason = output.contact.review_reason
              /\ (\A i \in 1..Len(input.w.crm) :
                      ~SameEmail(input.w.crm[i].email, input.w.order.email))
                 => output.ret.reason = <<"No NetSuite record found">>
        /\ output.ret.status = "success" =>
              /\ output.contact # None
              /\ Truthy(output.ret.sales_rep)
              /\ output.ret.sales_rep = output.contact.sales_rep
              /\ output.ret.manual_verification = output.contact.manual_verification

C6_Witness ==
    /\ IsProcess
    /\ output.ret.status = "success"
    /\ LedgerWritten
    /\ output.ret.manual_verification
    /\ output.ret.sales_rep = Str(<<"J. Smith">>)

ConfiguredStores == {<<"Wilson US">>, <<"Signal US">>, <<"Wilson CA">>, <<"Signal CA">>}

\* C7: for a payload with an order id and a store that is not configured,
\* process_klaviyo_order makes no external call and answers a 400 error.
C7_UnknownStoreIs400 ==
    (/\ IsProcess
     /\ input.klaviyo_data.t = "json"
     /\ Truthy(input.klaviyo_data.order_id)
     /\ Truthy(input.klaviyo_data.store)
     /\ \/ input.klaviyo_data.store.v \notin ConfiguredStores
        \/ input.klaviyo_data.store.v \notin input.w.env.stores)
    => (/\ calls = <<>>
        /\ output.ret.is_tuple
        /\ output.ret.code = 400)

\* C8: a POST whose JSON body lacks data.order_id or data.store is answered
\* with HTTP status 400 and without any external call.
C8_MissingFieldIs400 ==
    (/\ IsHandler
     /\ input.request.method = "POST"
     /\ input.request.body.t = "json"
     /\ (~Truthy(input.request.body.order_id) \/ ~Truthy(input.request.body.store)))
    => (output.status_code = 400 /\ calls = <<>>)

\* C9: a request that is neither POST nor OPTIONS completes without raising,
\* with status 405, a JSON error body and no order processed; OPTIONS
\* completes with status 200 and the permissive CORS headers.
C9_MethodNotAllowedCompletes ==
    IsHandler =>
        /\ input.request.method \notin {"POST", "OPTIONS"} =>
              /\ output.raised = "none"
              /\ output.status_code = 405
              /\ output.body = "method_not_allowed"
              /\ calls = <<>>
        /\ input.request.method = "OPTIONS" =>
              /\ output.raised = "none"
              /\ output.status_code = 200
              /\ output.headers.Access_Control_Allow_Origin = "*"

\* C10: when the order request fails (exception, timeout, error status),
\* get_order_details raises to process_klaviyo_order, which then issues no
\* CRM query and no ledger write and answers an error with status 500.
C10_FetchFailureIs500 ==
    (/\ IsProcess
     /\ \E i \in 1..Len(calls) :
            calls[i].call = "get_order_details" /\ calls[i].outcome # "ok")
    => (/\ Len(calls) = 1
        /\ output.contact = None
        /\ output.ret.is_tuple
        /\ output.ret.code = 500
        /\ output.ret.status = "error")

C10_Witness ==
    /\ IsProcess
    /\ calls = <<[call |-> "get_order_details", outcome |-> "timeout"]>>
    /\ output.ret.code = 500

\* position of a call in the chain fetch -> CRM queries -> employee -> ledger
CallRank(c) ==
    IF c.call = "get_order_details" THEN 1
    ELSE IF c.call = "crm_perfect" THEN 2
    ELSE IF c.call = "crm_email" THEN 3
    ELSE IF c.call = "employee" THEN 4
    ELSE 5

Issued(name) == \E i \in 1..Len(calls) : calls[i].call = name

\* C11: the external calls of one invocation of process_klaviyo_order come in
\* the order order fetch, CRM queries, employee lookup, ledger write, each at
\* most once (nothing is retried); every later call follows a successful
\* fetch, and a matcher that ran issued one or two CRM queries; the
\* perfect-match query is issued only for an order with a phone, the
\* email-only query only when the perfect-match query was skipped or answered
\* nothing; a failed ledger write is answered as an error, neither "success"
\* nor "ignored".
C11_CallChainOrderNoRetry ==
    IsProcess =>
        /\ \A i \in 1..Len(calls) : \A j \in 1..Len(calls) :
              i < j => CallRank(calls[i]) < CallRank(calls[j])
        /\ Len(calls) > 0 =>
              calls[1].call = "get_order_details"
        /\ Len(calls) > 1 =>
              /\ calls[1].outcome = "ok"
              /\ calls[2].call \in {"crm_perfect", "crm_email"}
        /\ output.contact # None => (Issued("crm_perfect") \/ Issued("crm_email"))
        /\ Issued("crm_perfect") => Truthy(input.w.order.phone)
        /\ (Issued("crm_perfect") /\ Issued("crm_email")) =>
              \/ input.w.net.perfect # "ok"
              \/ Len(PerfectMatchRows(input.w.crm, input.w.order.email,
                                      _clean_phone(input.w.order.phone).v)) = 0
        /\ (\E i \in 1..Len(calls) :
                /\ calls[i].call = "send_to_sheets"
                /\ calls[i].outcome \notin {"ok", "simulated"})
           => (/\ output.ret.status = "error"
               /\ output.ret.is_tuple
               /\ output.ret.code = 500)

C11_Witness ==
    /\ IsProcess
    /\ Len(calls) = 5
    /\ calls[2] = [call |-> "crm_perfect", outcome |-> "ok"]
    /\ calls[3] = [call |-> "crm_email", outcome |-> "ok"]
    /\ calls[4].call = "employee"
    /\ calls[5].call = "send_to_sheets" /\ calls[5].outcome = "http_error"
    /\ output.ret.status = "error"

====
